---- MODULE Spec2Model ----
(***************************************************************************)
(* Converge: the teammate-request / rating-request workflow of             *)
(* ProjectTeamService and ProjectService over the three stores             *)
(* projects, project_team and project_team_request.                        *)
(*                                                                         *)
(* Spec      every service call runs alone, from entry to return.          *)
(* ConcSpec  two request threads run service calls interleaved at the      *)
(*           granularity of single repository calls; a repository write    *)
(*           may fail (store unavailable).  No service method is           *)
(*           transactional, so every repository call commits on its own.   *)
(* FanSpec   the calls that pass the caller checks, one at a time, with    *)
(*           enough request ids to repeat a completion fan-out.            *)
(* AuthSpec  the frontend AuthProvider: login, logout, refresh and the     *)
(*           profile fetches in flight, settling in any order.             *)
(* PageSpec  the frontend NotificationsPage: the accept / reject buttons   *)
(*           and the server calls in flight; every call settles.           *)
(***************************************************************************)
EXTENDS Integers, Sequences, FiniteSets, TLC

\* ------------------------------------------------------------------------
\* Bounds
\* ------------------------------------------------------------------------
\* highest id the project_team_request IDENTITY column hands out
MaxReqId == 4
\* service calls started in one behaviour of ConcSpec
MaxCalls == 3
\* highest request id handed out in FanSpec, where fan-outs are repeated
MaxFanReqId == 8
\* getMyProfile calls the AuthProvider starts in one behaviour of AuthSpec
MaxFetches == 3
\* requests the NotificationsPage has loaded in PageSpec
MaxShown == 3

\* ------------------------------------------------------------------------
\* Input domains
\* ------------------------------------------------------------------------
\* "ANN" and "ann" differ only by case
Emails == {"ann", "ANN", "bob", "cat"}
\* rows of the projects table
Projects == {1}
\* project ids a caller may send; 2 has no row
ProjectIdInputs == {1, 2}
\* request ids a caller may send; MaxReqId + 1 is never issued
RequestIdInputs == 1..(MaxReqId + 1)
\* request threads of ConcSpec
Threads == {1, 2}
\* value of a nullable column that is not set
NULL == "null"
\* registered profiles (rows of the resume table) a deployment may hold
ProfileSets == {{"ann", "bob", "cat"}, {"ANN", "bob"}, {"ANN", "bob", "cat"}}

VARIABLES
    status,      \* projects.status, by project id
    team,        \* rows of project_team
    requests,    \* rows of project_team_request
    nextTeamId,  \* next IDENTITY value of project_team
    nextReqId,   \* next IDENTITY value of project_team_request
    profiles,    \* emails that have a row in resume
    last,        \* the service call that returned last, and its result
    origin,      \* history: for each project_team row, the request whose accept wrote it
    pc,          \* ConcSpec: position of each request thread
    loc,         \* ConcSpec: local variables of each request thread
    calls,       \* ConcSpec: number of service calls started
    token,       \* AuthProvider: React state token
    storedToken, \* AuthProvider: localStorage item "token"
    profile,     \* AuthProvider: React state profile
    loading,     \* AuthProvider: React state loading
    fetching,    \* AuthProvider: getMyProfile calls in flight
    fetchCount,  \* AuthProvider: getMyProfile calls started
    pageRequests,\* NotificationsPage: React state requests (ids, in order)
    processing,  \* NotificationsPage: React state processing
    handling,    \* NotificationsPage: handle calls awaiting the server
    settled      \* NotificationsPage: the server call that settled last

vars == <<status, team, requests, nextTeamId, nextReqId, profiles, last,
          origin, pc, loc, calls>>

storeVars == <<status, team, requests, nextTeamId, nextReqId>>
threadVars == <<pc, loc, calls>>
authVars == <<token, storedToken, profile, loading, fetching, fetchCount>>
pageVars == <<pageRequests, processing, handling, settled>>
uiVars == <<authVars, pageVars>>

\* ------------------------------------------------------------------------
\* Entities and repository queries
\* ------------------------------------------------------------------------
\* ProjectData.email: the owner of the project, fixed at creation
ownerEmail(p) == "ann"

\* String.toLowerCase on the emails of the model
Lower(e) == IF e = "ANN" THEN "ann" ELSE e

\* mutant: the comparison is String.equals
equalsIgnoreCase_Exact(a, b) == a = b

\* String.equalsIgnoreCase
equalsIgnoreCase(a, b) == Lower(a) = Lower(b)

\* a project_team row
ProjectTeam(id, p, e) == [id |-> id, projectId |-> p, memberEmail |-> e]

\* a project_team_request row
ProjectTeamRequest(id, p, requester, target, type, ratee) ==
    [id |-> id, projectId |-> p, requesterEmail |-> requester,
     targetEmail |-> target, status |-> "PENDING", type |-> type,
     rateeEmail |-> ratee]

\* ProjectRepository.findById(...).isPresent()
projectExists(p) == p \in Projects

\* JsonDataRepository.findByEmail(...).isPresent()
hasProfile(e) == e \in profiles

\* ProjectTeamRepository.existsByProjectIdAndMemberEmail
existsByProjectIdAndMemberEmail(p, e) ==
    \E t \in team : t.projectId = p /\ t.memberEmail = e

\* mutant: the lookup compares the status with a value no row has
findByProjectIdAndTargetEmailAndStatus_WrongStatus(p, e, s) ==
    {r \in requests : r.projectId = p /\ r.targetEmail = e /\ r.status = "ACCEPTED"}

\* ProjectTeamRequestRepository.findByProjectIdAndTargetEmailAndStatus
findByProjectIdAndTargetEmailAndStatus(p, e, s) ==
    {r \in requests : r.projectId = p /\ r.targetEmail = e /\ r.status = s}

\* ProjectTeamRequestRepository.findById
findById(rid) == {r \in requests : r.id = rid}

\* ProjectTeamRepository.findAllByProjectId, in storage (id) order
RECURSIVE SortById(_)
SortById(S) ==
    IF S = {} THEN <<>>
    ELSE LET m == CHOOSE x \in S : \A y \in S : x.id <= y.id
         IN <<m>> \o SortById(S \ {m})

findAllByProjectId(p) == SortById({t \in team : t.projectId = p})

\* ------------------------------------------------------------------------
\* The record of the last call
\* ------------------------------------------------------------------------
\* no request row / no membership row
NoRequest == [id |-> 0, projectId |-> 0, requesterEmail |-> NULL, targetEmail |-> NULL,
              status |-> NULL, type |-> NULL, rateeEmail |-> NULL]
NoTeam == [id |-> 0, projectId |-> 0, memberEmail |-> NULL]

\* op: the service method; outcome: "ok"/"created"/"existing" or the exception
\* thrown
NoCall == [op |-> "none", outcome |-> "none"]

Returned(op, outcome) == [op |-> op, outcome |-> outcome]

\* the failure taxonomy of the service's exception messages
ErrorKind(outcome) ==
    CASE outcome \in {"ProjectNotFound", "NoProfile", "RequestNotFound"} -> "NotFound"
      [] outcome \in {"NotOwner", "NotTarget"} -> "Forbidden"
      [] outcome = "Self" -> "InvalidArgument"
      [] outcome = "AlreadyTeammate" -> "Conflict"
      [] outcome = "NotPending" -> "InvalidState"
      [] outcome \in {"ok", "created", "existing"} -> "Success"
      [] OTHER -> "Internal"

\* local variables of a request thread that is not in a call
NoLocals == [op |-> "none", caller |-> NULL, projectId |-> 0, targetEmail |-> NULL,
             requestId |-> 0, req |-> NoRequest, ret |-> NoTeam, todo |-> <<>>,
             outcome |-> "none"]

ServerInit ==
    /\ status = [p \in Projects |-> "ACTIVE"]
    /\ team = {}
    /\ requests = {}
    /\ nextTeamId = 1
    /\ nextReqId = 1
    /\ profiles \in ProfileSets
    /\ last = NoCall
    /\ origin = {}
    /\ pc = [t \in Threads |-> "idle"]
    /\ loc = [t \in Threads |-> NoLocals]
    /\ calls = 0

\* the AuthProvider before anybody has logged in on this browser
AuthUnmounted ==
    /\ token = NULL
    /\ storedToken = NULL
    /\ profile = NULL
    /\ loading = FALSE
    /\ fetching = {}
    /\ fetchCount = 0

\* no NotificationsPage server call has settled yet
NoneSettled == [requestId |-> 0, ok |-> FALSE]

\* the NotificationsPage with nothing loaded
PageUnmounted ==
    /\ pageRequests = <<>>
    /\ processing = <<>>
    /\ handling = {}
    /\ settled = NoneSettled

Init == ServerInit /\ AuthUnmounted /\ PageUnmounted

\* ------------------------------------------------------------------------
\* ProjectTeamService.createTeammateRequest
\* ------------------------------------------------------------------------
\* mutant: the pending-request lookup of lines 163-168 is left out
createTeammateRequestOutcome_NoPendingCheck(caller, p, target) ==
    IF ~projectExists(p) THEN "ProjectNotFound"
    ELSE IF caller # ownerEmail(p) THEN "NotOwner"
    ELSE IF equalsIgnoreCase(caller, target) THEN "Self"
    ELSE IF ~hasProfile(target) THEN "NoProfile"
    ELSE IF existsByProjectIdAndMemberEmail(p, target) THEN "AlreadyTeammate"
    ELSE "created"

\* the checks of createTeammateRequest, in the order the code makes them
createTeammateRequestOutcome(caller, p, target) ==
    IF ~projectExists(p) THEN "ProjectNotFound"
    ELSE IF caller # ownerEmail(p) THEN "NotOwner"
    ELSE IF equalsIgnoreCase(caller, target) THEN "Self"
    ELSE IF ~hasProfile(target) THEN "NoProfile"
    ELSE IF existsByProjectIdAndMemberEmail(p, target) THEN "AlreadyTeammate"
    ELSE LET existing == findByProjectIdAndTargetEmailAndStatus(p, target, "PENDING")
         IN IF Cardinality(existing) > 1 THEN "NonUniqueResult"
            ELSE IF existing # {} THEN "existing"
            ELSE "created"

\* mutant: the new row's id is the number of stored rows plus one
createTeammateRequestResult_CountId(caller, p, target) ==
    LET o == createTeammateRequestOutcome(caller, p, target)
    IN IF o = "created"
       THEN ProjectTeamRequest(Cardinality(requests) + 1, p, caller, target,
                               "JOIN_REQUEST", NULL)
       ELSE IF o = "existing"
       THEN CHOOSE r \in findByProjectIdAndTargetEmailAndStatus(p, target, "PENDING") : TRUE
       ELSE NoRequest

\* the request row createTeammateRequest returns
createTeammateRequestResult(caller, p, target) ==
    LET o == createTeammateRequestOutcome(caller, p, target)
    IN IF o = "created"
       THEN ProjectTeamRequest(nextReqId, p, caller, target, "JOIN_REQUEST", NULL)
       ELSE IF o = "existing"
       THEN CHOOSE r \in findByProjectIdAndTargetEmailAndStatus(p, target, "PENDING") : TRUE
       ELSE NoRequest

\* mutant: the request row is saved before the already-a-teammate check
createTeammateRequestUpTo_SaveFirst(cap, caller, p, target) ==
    LET o == createTeammateRequestOutcome(caller, p, target)
        row == ProjectTeamRequest(nextReqId, p, caller, target, "JOIN_REQUEST", NULL)
    IN /\ IF o \in {"created", "AlreadyTeammate"}
          THEN /\ nextReqId <= cap
               /\ requests' = requests \cup {row}
               /\ nextReqId' = nextReqId + 1
          ELSE UNCHANGED <<requests, nextReqId>>
       /\ last' = Returned("invite", o)
       /\ UNCHANGED <<status, team, nextTeamId, profiles, uiVars, origin, threadVars>>

\* createTeammateRequest while the IDENTITY column has ids up to cap left
createTeammateRequestUpTo(cap, caller, p, target) ==
    LET o == createTeammateRequestOutcome(caller, p, target)
        res == createTeammateRequestResult(caller, p, target)
    IN /\ IF o = "created"
          THEN /\ nextReqId <= cap
               /\ requests' = requests \cup {res}
               /\ nextReqId' = nextReqId + 1
          ELSE UNCHANGED <<requests, nextReqId>>
       /\ last' = Returned("invite", o)
       /\ UNCHANGED <<status, team, nextTeamId, profiles, uiVars, origin, threadVars>>

createTeammateRequest(caller, p, target) ==
    createTeammateRequestUpTo(MaxReqId, caller, p, target)

\* ------------------------------------------------------------------------
\* ProjectTeamService.acceptTeammateRequest
\* ------------------------------------------------------------------------
\* the row findById returns, NoRequest when the Optional is empty
findRequest(rid) == IF findById(rid) = {} THEN NoRequest ELSE CHOOSE r \in findById(rid) : TRUE

\* mutant: the already-a-teammate check of lines 208-213 is left out
acceptTeammateRequestOutcome_NoMemberCheck(caller, rid) ==
    LET req == findRequest(rid)
    IN IF req = NoRequest THEN "RequestNotFound"
       ELSE IF req.status # "PENDING" THEN "NotPending"
       ELSE IF ~equalsIgnoreCase(caller, req.targetEmail) THEN "NotTarget"
       ELSE "ok"

acceptTeammateRequestOutcome(caller, rid) ==
    LET req == findRequest(rid)
    IN IF req = NoRequest THEN "RequestNotFound"
       ELSE IF req.status # "PENDING" THEN "NotPending"
       ELSE IF ~equalsIgnoreCase(caller, req.targetEmail) THEN "NotTarget"
       ELSE IF existsByProjectIdAndMemberEmail(req.projectId, req.targetEmail)
            THEN "AlreadyTeammate"
       ELSE "ok"

\* mutant: the accepted request is marked ACCEPTED instead of deleted
acceptTeammateRequest_SoftResolve(caller, rid) ==
    LET o == acceptTeammateRequestOutcome(caller, rid)
        req == findRequest(rid)
        pt == ProjectTeam(nextTeamId, req.projectId, req.targetEmail)
    IN /\ IF o = "ok"
          THEN /\ team' = team \cup {pt}
               /\ nextTeamId' = nextTeamId + 1
               /\ origin' = origin \cup {[teamId |-> pt.id, req |-> req]}
               /\ requests' = (requests \ {req}) \cup {[req EXCEPT !.status = "ACCEPTED"]}
          ELSE /\ requests' = IF o \in {"NotPending", "AlreadyTeammate"}
                              THEN requests \ {req} ELSE requests
               /\ UNCHANGED <<team, nextTeamId, origin>>
       /\ last' = Returned("accept", o)
       /\ UNCHANGED <<status, nextReqId, profiles, uiVars, threadVars>>

acceptTeammateRequest(caller, rid) ==
    LET o == acceptTeammateRequestOutcome(caller, rid)
        req == findRequest(rid)
        pt == ProjectTeam(nextTeamId, req.projectId, req.targetEmail)
    IN /\ IF o = "ok"
          THEN /\ team' = team \cup {pt}
               /\ nextTeamId' = nextTeamId + 1
               /\ origin' = origin \cup {[teamId |-> pt.id, req |-> req]}
               /\ requests' = requests \ {req}
          ELSE /\ requests' = IF o \in {"NotPending", "AlreadyTeammate"}
                              THEN requests \ {req} ELSE requests
               /\ UNCHANGED <<team, nextTeamId, origin>>
       /\ last' = Returned("accept", o)
       /\ UNCHANGED <<status, nextReqId, profiles, uiVars, threadVars>>

\* ------------------------------------------------------------------------
\* ProjectTeamService.rejectTeammateRequest
\* ------------------------------------------------------------------------
\* mutant: the target check of lines 245-247 is left out
rejectTeammateRequestOutcome_NoTargetCheck(caller, rid) ==
    LET req == findRequest(rid)
    IN IF req = NoRequest THEN "RequestNotFound"
       ELSE IF req.status # "PENDING" THEN "NotPending"
       ELSE "ok"

rejectTeammateRequestOutcome(caller, rid) ==
    LET req == findRequest(rid)
    IN IF req = NoRequest THEN "RequestNotFound"
       ELSE IF req.status # "PENDING" THEN "NotPending"
       ELSE IF ~equalsIgnoreCase(caller, req.targetEmail) THEN "NotTarget"
       ELSE "ok"

\* mutant: reject adds the target to the team before deleting the request
rejectTeammateRequest_Joins(caller, rid) ==
    LET o == rejectTeammateRequestOutcome(caller, rid)
        req == findRequest(rid)
    IN /\ requests' = IF o \in {"ok", "NotPending"} THEN requests \ {req} ELSE requests
       /\ IF o = "ok"
          THEN /\ team' = team \cup {ProjectTeam(nextTeamId, req.projectId, req.targetEmail)}
               /\ nextTeamId' = nextTeamId + 1
          ELSE UNCHANGED <<team, nextTeamId>>
       /\ last' = Returned("reject", o)
       /\ UNCHANGED <<status, nextReqId, profiles, uiVars, origin, threadVars>>

\* mutant: the rejected request is marked REJECTED instead of deleted
rejectTeammateRequest_MarksRejected(caller, rid) ==
    LET o == rejectTeammateRequestOutcome(caller, rid)
        req == findRequest(rid)
    IN /\ requests' = IF o = "ok"
                      THEN (requests \ {req}) \cup {[req EXCEPT !.status = "REJECTED"]}
                      ELSE IF o = "NotPending" THEN requests \ {req} ELSE requests
       /\ last' = Returned("reject", o)
       /\ UNCHANGED <<status, team, nextTeamId, nextReqId, profiles, uiVars, origin, threadVars>>

rejectTeammateRequest(caller, rid) ==
    LET o == rejectTeammateRequestOutcome(caller, rid)
        req == findRequest(rid)
    IN /\ requests' = IF o \in {"ok", "NotPending"} THEN requests \ {req} ELSE requests
       /\ last' = Returned("reject", o)
       /\ UNCHANGED <<status, team, nextTeamId, nextReqId, profiles, uiVars, origin, threadVars>>

\* ------------------------------------------------------------------------
\* ProjectTeamService.listIncomingRequestsForCurrentUser
\* ------------------------------------------------------------------------
\* mutant: the derived query is findAllByTargetEmailIgnoreCase
findAllByTargetEmail_IgnoreCase(e) == {r \in requests : equalsIgnoreCase(r.targetEmail, e)}

\* ProjectTeamRequestRepository.findAllByTargetEmail: the rows the call returns
findAllByTargetEmail(e) == {r \in requests : r.targetEmail = e}

listIncomingRequestsForCurrentUser(caller) ==
    /\ findAllByTargetEmail(caller) \subseteq requests
    /\ last' = Returned("list", "ok")
    /\ UNCHANGED <<storeVars, profiles, uiVars, origin, threadVars>>

\* ------------------------------------------------------------------------
\* ProjectService.listProjectsForCurrentUser
\* ------------------------------------------------------------------------
\* ids in ascending order
RECURSIVE SortIds(_)
SortIds(S) ==
    IF S = {} THEN <<>>
    ELSE LET m == CHOOSE x \in S : \A y \in S : x <= y
         IN <<m>> \o SortIds(S \ {m})

\* ProjectRepository.findAllByEmail: the ids of the projects e owns
findAllByEmail(e) == SortIds({p \in Projects : ownerEmail(p) = e})

\* ProjectTeamRepository.findAllByMemberEmail
findAllByMemberEmail(e) == SortById({t \in team : t.memberEmail = e})

\* Stream.distinct: the first occurrence of every element, in order
RECURSIVE distinct(_)
distinct(seq) ==
    IF seq = <<>> THEN <<>>
    ELSE LET front == distinct(SubSeq(seq, 1, Len(seq) - 1))
             x == seq[Len(seq)]
         IN IF \E i \in 1..Len(front) : front[i] = x THEN front ELSE Append(front, x)

\* ProjectRepository.findAllById: the stored projects among ids, each once
findAllById(ids) == SortIds({p \in Projects : \E i \in 1..Len(ids) : ids[i] = p})

\* mutant: a teammate project is added without the anyMatch check
RECURSIVE addMissing_NoCheck(_, _)
addMissing_NoCheck(result, ps) ==
    IF ps = <<>> THEN result
    ELSE addMissing_NoCheck(Append(result, Head(ps)), Tail(ps))

\* the loop of lines 96-101: a teammate project is added unless the result
\* already holds a project with its id
RECURSIVE addMissing(_, _)
addMissing(result, ps) ==
    IF ps = <<>> THEN result
    ELSE LET exists == \E i \in 1..Len(result) : result[i] = Head(ps)
         IN addMissing(IF exists THEN result ELSE Append(result, Head(ps)), Tail(ps))

\* the list listProjectsForCurrentUser returns for e
listProjectsResult(e) ==
    LET result == findAllByEmail(e)
        teamRows == findAllByMemberEmail(e)
        teammateProjectIds == distinct([i \in 1..Len(teamRows) |-> teamRows[i].projectId])
    IN IF teamRows = <<>> THEN result
       ELSE addMissing(result, findAllById(teammateProjectIds))

listProjectsForCurrentUser(caller) ==
    /\ Len(listProjectsResult(caller)) >= 0
    /\ last' = Returned("projects", "ok")
    /\ UNCHANGED <<storeVars, profiles, uiVars, origin, threadVars>>

\* ------------------------------------------------------------------------
\* ProjectTeamService.createRatingRequestsForProject
\* ------------------------------------------------------------------------
\* memberEmails: the owner, then the teammates in storage order
memberEmails(p) ==
    LET rows == findAllByProjectId(p)
    IN <<ownerEmail(p)>> \o [i \in 1..Len(rows) |-> rows[i].memberEmail]

\* mutant: the Optional::isPresent filter is left out
memberProfiles_NoFilter(p) == memberEmails(p)

\* memberProfiles: the member emails whose profile is found, as a list
memberProfiles(p) == SelectSeq(memberEmails(p), hasProfile)

\* the (rater, ratee) pairs the nested loop saves a row for, in loop order
ratingPairs(ps) ==
    LET n == Len(ps)
        all == [k \in 1..(n * n) |-> <<ps[((k - 1) \div n) + 1], ps[((k - 1) % n) + 1]>>]
        differ(pair) == pair[1] # pair[2]
    IN SelectSeq(all, differ)

\* mutant: the status check of lines 265-267 is left out
createRatingRequestsForProject_NoStatusCheck(p, st) == ratingPairs(memberProfiles(p))

\* mutant: a pair that already has a RATING_REQUEST row is skipped
createRatingRequestsForProject_SkipExisting(p, st) ==
    LET fresh(pair) == ~\E r \in requests : /\ r.type = "RATING_REQUEST" /\ r.projectId = p
                                           /\ r.targetEmail = pair[1]
                                           /\ r.rateeEmail = pair[2]
    IN IF st # "COMPLETED" THEN <<>> ELSE SelectSeq(ratingPairs(memberProfiles(p)), fresh)

\* the (rater, ratee) pairs createRatingRequestsForProject saves a row for,
\* for project p whose status is st
createRatingRequestsForProject(p, st) ==
    IF st # "COMPLETED" THEN <<>> ELSE ratingPairs(memberProfiles(p))

\* the RATING_REQUEST row saved for the k-th pair when the first gets id first
ratingRequest(p, pairs, k, first) ==
    ProjectTeamRequest(first + k - 1, p, "System", pairs[k][1], "RATING_REQUEST", pairs[k][2])

\* ------------------------------------------------------------------------
\* ProjectService.completeProject
\* ------------------------------------------------------------------------
\* mutant: the owner check of lines 131-133 is left out
completeProjectOutcome_NoOwnerCheck(caller, p) ==
    IF ~projectExists(p) THEN "ProjectNotFound" ELSE "ok"

completeProjectOutcome(caller, p) ==
    IF ~projectExists(p) THEN "ProjectNotFound"
    ELSE IF caller # ownerEmail(p) THEN "NotOwner"
    ELSE "ok"

\* mutant: completing a project that is COMPLETED sets it back to ACTIVE
completeProjectUpTo_Toggles(cap, caller, p) ==
    LET o == completeProjectOutcome(caller, p)
        pairs == createRatingRequestsForProject(p, "COMPLETED")
    IN /\ IF o = "ok" /\ status[p] = "COMPLETED"
          THEN /\ status' = [status EXCEPT ![p] = "ACTIVE"]
               /\ UNCHANGED <<requests, nextReqId>>
          ELSE IF o = "ok"
          THEN /\ nextReqId + Len(pairs) - 1 <= cap
               /\ status' = [status EXCEPT ![p] = "COMPLETED"]
               /\ requests' = requests \cup
                     {ratingRequest(p, pairs, k, nextReqId) : k \in 1..Len(pairs)}
               /\ nextReqId' = nextReqId + Len(pairs)
          ELSE UNCHANGED <<status, requests, nextReqId>>
       /\ last' = Returned("complete", o)
       /\ UNCHANGED <<team, nextTeamId, profiles, uiVars, origin, threadVars>>

\* completeProject while the IDENTITY column has ids up to cap left
completeProjectUpTo(cap, caller, p) ==
    LET o == completeProjectOutcome(caller, p)
        pairs == createRatingRequestsForProject(p, "COMPLETED")
    IN /\ IF o = "ok"
          THEN /\ nextReqId + Len(pairs) - 1 <= cap
               /\ status' = [status EXCEPT ![p] = "COMPLETED"]
               /\ requests' = requests \cup
                     {ratingRequest(p, pairs, k, nextReqId) : k \in 1..Len(pairs)}
               /\ nextReqId' = nextReqId + Len(pairs)
          ELSE UNCHANGED <<status, requests, nextReqId>>
       /\ last' = Returned("complete", o)
       /\ UNCHANGED <<team, nextTeamId, profiles, uiVars, origin, threadVars>>

completeProject(caller, p) == completeProjectUpTo(MaxReqId, caller, p)

\* ------------------------------------------------------------------------
\* ProjectController.createTeammateRequest: the HTTP status of an invite
\* ------------------------------------------------------------------------
\* The message of the exception createTeammateRequest throws, as the sequence
\* of its words; the last case is Spring's message for a lookup that found
\* more than one row.
exceptionMessage(outcome, target) ==
    CASE outcome = "ProjectNotFound" -> <<"Project", "not", "found">>
      [] outcome = "NotOwner" ->
            <<"Only", "project", "owner", "can", "send", "teammate", "requests">>
      [] outcome = "Self" -> <<"Cannot", "send", "request", "to", "yourself">>
      [] outcome = "NoProfile" ->
            <<"No", "registered", "user", "found", "with", "email:", target>>
      [] outcome = "AlreadyTeammate" -> <<"User", "already", "a", "teammate">>
      [] OTHER -> <<"Query", "did", "not", "return", "a", "unique", "result">>

\* String.toLowerCase, word by word
toLowerCase(msg) ==
    LET word(w) == CASE w = "Project" -> "project"
                     [] w = "Only" -> "only"
                     [] w = "Cannot" -> "cannot"
                     [] w = "No" -> "no"
                     [] w = "User" -> "user"
                     [] w = "Query" -> "query"
                     [] OTHER -> Lower(w)
    IN [i \in 1..Len(msg) |-> word(msg[i])]

\* String.contains for a phrase of whole words
contains(msg, phrase) ==
    \E i \in 1..(Len(msg) - Len(phrase) + 1) :
        SubSeq(msg, i, i + Len(phrase) - 1) = phrase

\* the status of the controller's response to an invite with this outcome
createTeammateRequestHttpStatus(outcome, target) ==
    IF outcome \in {"created", "existing"} THEN 201
    ELSE LET msg == toLowerCase(exceptionMessage(outcome, target))
         IN IF contains(msg, <<"not", "found">>) THEN 404
            ELSE IF contains(msg, <<"only", "project", "owner">>) THEN 403
            ELSE IF contains(msg, <<"cannot", "send", "request", "to", "yourself">>)
                 THEN 400
            ELSE IF contains(msg, <<"already", "a", "teammate">>) THEN 409
            ELSE 400

\* ------------------------------------------------------------------------
\* ProjectController accept / reject / complete and GlobalExceptionHandler
\* ------------------------------------------------------------------------
\* the class of the exception a failed service call throws: the services
\* throw plain RuntimeException, the repositories a DataAccessException
exceptionClass(outcome) ==
    IF outcome \in {"NonUniqueResult", "StoreFailure", "StaleDelete"}
    THEN "DataAccessException"
    ELSE "RuntimeException"

\* GlobalExceptionHandler: the status of the handler chosen for the class
handleException(cls) ==
    CASE cls = "ProfileNotFoundException" -> 404
      [] cls = "ClassCastException" -> 400
      [] cls = "IllegalArgumentException" -> 400
      [] OTHER -> 500

\* the status of the response to an accept, reject or complete call with
\* this outcome: the controller methods catch nothing
controllerHttpStatus(outcome) ==
    IF outcome = "ok" THEN 200 ELSE handleException(exceptionClass(outcome))

\* ------------------------------------------------------------------------
\* Spec: service calls one at a time
\* ------------------------------------------------------------------------
Invite == \E c \in Emails, p \in ProjectIdInputs, t \in Emails : createTeammateRequest(c, p, t)
Accept == \E c \in Emails, rid \in RequestIdInputs : acceptTeammateRequest(c, rid)
Reject == \E c \in Emails, rid \in RequestIdInputs : rejectTeammateRequest(c, rid)
Complete == \E c \in Emails, p \in ProjectIdInputs : completeProject(c, p)
List == \E c \in Emails : listIncomingRequestsForCurrentUser(c)
ListProjects == \E c \in Emails : listProjectsForCurrentUser(c)

Next == Invite \/ Accept \/ Reject \/ Complete \/ List \/ ListProjects

Spec == Init /\ [][Next]_vars

\* ------------------------------------------------------------------------
\* FanSpec: the calls that pass the caller checks (the owner invites and
\* completes, a request's target answers it), one at a time, with request
\* ids up to MaxFanReqId so that a fan-out can be repeated
\* ------------------------------------------------------------------------
FanInvite ==
    \E p \in Projects, t \in Emails :
        createTeammateRequestUpTo(MaxFanReqId, ownerEmail(p), p, t)
FanAccept == \E r \in requests : acceptTeammateRequest(r.targetEmail, r.id)
FanReject == \E r \in requests : rejectTeammateRequest(r.targetEmail, r.id)
FanComplete == \E p \in Projects : completeProjectUpTo(MaxFanReqId, ownerEmail(p), p)

FanNext == FanInvite \/ FanAccept \/ FanReject \/ FanComplete

FanSpec == Init /\ [][FanNext]_vars

\* ------------------------------------------------------------------------
\* ConcSpec: request threads, one repository call per step
\* ------------------------------------------------------------------------
CanStart(t) == pc[t] \in {"idle", "done"} /\ calls < MaxCalls

\* the thread's call has returned or thrown: only the result is kept
Finish(t, outcome, req, ret) ==
    /\ pc' = [pc EXCEPT ![t] = "done"]
    /\ loc' = [loc EXCEPT ![t] = [NoLocals EXCEPT !.op = loc[t].op,
                                                  !.requestId = loc[t].requestId,
                                                  !.req = req, !.ret = ret,
                                                  !.outcome = outcome]]

Goto(t, label, locals) ==
    /\ pc' = [pc EXCEPT ![t] = label]
    /\ loc' = [loc EXCEPT ![t] = locals]

\* CrudRepository.delete(req) of a row another thread may have deleted: the row
\* is removed; when it is already gone the call is a no-op (entity detached,
\* em.find returns null) or the flush fails on the row count (entity still
\* managed by the request's persistence context)
deleteOutcomes(req, normal) ==
    IF req \in requests THEN {normal} ELSE {normal, "StaleDelete"}

\* createTeammateRequest, lines 135-156: authentication, project, owner,
\* self and profile checks (the projects and resume tables do not change)
StartInvite(t, c, p, target) ==
    /\ CanStart(t)
    /\ calls' = calls + 1
    /\ LET o == IF ~projectExists(p) THEN "ProjectNotFound"
                ELSE IF c # ownerEmail(p) THEN "NotOwner"
                ELSE IF equalsIgnoreCase(c, target) THEN "Self"
                ELSE IF ~hasProfile(target) THEN "NoProfile"
                ELSE "continue"
           l == [NoLocals EXCEPT !.op = "invite", !.caller = c, !.projectId = p,
                                 !.targetEmail = target]
       IN /\ pc' = [pc EXCEPT ![t] = IF o = "continue" THEN "inv_exists" ELSE "done"]
          /\ loc' = [loc EXCEPT ![t] = IF o = "continue" THEN l
                                       ELSE [NoLocals EXCEPT !.op = "invite", !.outcome = o]]
    /\ UNCHANGED <<storeVars, profiles, uiVars, last, origin>>

\* createTeammateRequest, line 159
InviteExists(t) ==
    /\ pc[t] = "inv_exists"
    /\ IF existsByProjectIdAndMemberEmail(loc[t].projectId, loc[t].targetEmail)
       THEN Finish(t, "AlreadyTeammate", NoRequest, NoTeam)
       ELSE Goto(t, "inv_find", loc[t])
    /\ UNCHANGED <<storeVars, profiles, uiVars, last, origin, calls>>

\* createTeammateRequest, lines 164-168
InviteFind(t) ==
    /\ pc[t] = "inv_find"
    /\ LET existing == findByProjectIdAndTargetEmailAndStatus(
                           loc[t].projectId, loc[t].targetEmail, "PENDING")
       IN IF Cardinality(existing) > 1 THEN Finish(t, "NonUniqueResult", NoRequest, NoTeam)
          ELSE IF existing # {}
               THEN Finish(t, "existing", CHOOSE r \in existing : TRUE, NoTeam)
          ELSE Goto(t, "inv_save", loc[t])
    /\ UNCHANGED <<storeVars, profiles, uiVars, last, origin, calls>>

\* createTeammateRequest, lines 170-181
InviteSave(t) ==
    /\ pc[t] = "inv_save"
    /\ nextReqId <= MaxReqId
    /\ LET req == ProjectTeamRequest(nextReqId, loc[t].projectId, loc[t].caller,
                                     loc[t].targetEmail, "JOIN_REQUEST", NULL)
       IN /\ requests' = requests \cup {req}
          /\ nextReqId' = nextReqId + 1
          /\ Finish(t, "created", req, NoTeam)
    /\ UNCHANGED <<status, team, nextTeamId, profiles, uiVars, last, origin, calls>>

StartAccept(t, c, rid) ==
    /\ CanStart(t)
    /\ calls' = calls + 1
    /\ Goto(t, "acc_find", [NoLocals EXCEPT !.op = "accept", !.caller = c, !.requestId = rid])
    /\ UNCHANGED <<storeVars, profiles, uiVars, last, origin>>

\* acceptTeammateRequest, lines 193-204: findById, then the checks on the
\* loaded row
AcceptFind(t) ==
    /\ pc[t] = "acc_find"
    /\ LET req == findRequest(loc[t].requestId)
       IN IF req = NoRequest THEN Finish(t, "RequestNotFound", NoRequest, NoTeam)
          ELSE IF req.status # "PENDING"
               THEN Goto(t, "acc_del_stale", [loc[t] EXCEPT !.req = req])
          ELSE IF ~equalsIgnoreCase(loc[t].caller, req.targetEmail)
               THEN Finish(t, "NotTarget", req, NoTeam)
          ELSE Goto(t, "acc_exists", [loc[t] EXCEPT !.req = req])
    /\ UNCHANGED <<storeVars, profiles, uiVars, last, origin, calls>>

\* acceptTeammateRequest, line 209
AcceptExists(t) ==
    /\ pc[t] = "acc_exists"
    /\ IF existsByProjectIdAndMemberEmail(loc[t].req.projectId, loc[t].req.targetEmail)
       THEN Goto(t, "acc_del_dup", loc[t])
       ELSE Goto(t, "acc_save", loc[t])
    /\ UNCHANGED <<storeVars, profiles, uiVars, last, origin, calls>>

\* acceptTeammateRequest, lines 198-199 and 211-212: delete, then throw
AcceptDeleteAndThrow(t) ==
    /\ pc[t] \in {"acc_del_stale", "acc_del_dup"}
    /\ requests' = requests \ {loc[t].req}
    /\ \E o \in deleteOutcomes(loc[t].req,
                   IF pc[t] = "acc_del_stale" THEN "NotPending" ELSE "AlreadyTeammate") :
           Finish(t, o, loc[t].req, NoTeam)
    /\ UNCHANGED <<status, team, nextTeamId, nextReqId, profiles, uiVars, last, origin, calls>>

\* acceptTeammateRequest, lines 216-220
AcceptSave(t) ==
    /\ pc[t] = "acc_save"
    /\ LET pt == ProjectTeam(nextTeamId, loc[t].req.projectId, loc[t].req.targetEmail)
       IN /\ team' = team \cup {pt}
          /\ nextTeamId' = nextTeamId + 1
          /\ origin' = origin \cup {[teamId |-> pt.id, req |-> loc[t].req]}
          /\ Goto(t, "acc_delete", [loc[t] EXCEPT !.ret = pt])
    /\ UNCHANGED <<status, requests, nextReqId, profiles, uiVars, last, calls>>

\* acceptTeammateRequest, lines 223-225
AcceptDelete(t) ==
    /\ pc[t] = "acc_delete"
    /\ requests' = requests \ {loc[t].req}
    /\ \E o \in deleteOutcomes(loc[t].req, "ok") :
           Finish(t, o, loc[t].req, IF o = "ok" THEN loc[t].ret ELSE NoTeam)
    /\ UNCHANGED <<status, team, nextTeamId, nextReqId, profiles, uiVars, last, origin, calls>>

StartReject(t, c, rid) ==
    /\ CanStart(t)
    /\ calls' = calls + 1
    /\ Goto(t, "rej_find", [NoLocals EXCEPT !.op = "reject", !.caller = c, !.requestId = rid])
    /\ UNCHANGED <<storeVars, profiles, uiVars, last, origin>>

\* rejectTeammateRequest, lines 236-247
RejectFind(t) ==
    /\ pc[t] = "rej_find"
    /\ LET req == findRequest(loc[t].requestId)
       IN IF req = NoRequest THEN Finish(t, "RequestNotFound", NoRequest, NoTeam)
          ELSE IF req.status # "PENDING"
               THEN Goto(t, "rej_del_stale", [loc[t] EXCEPT !.req = req])
          ELSE IF ~equalsIgnoreCase(loc[t].caller, req.targetEmail)
               THEN Finish(t, "NotTarget", req, NoTeam)
          ELSE Goto(t, "rej_delete", [loc[t] EXCEPT !.req = req])
    /\ UNCHANGED <<storeVars, profiles, uiVars, last, origin, calls>>

\* rejectTeammateRequest, lines 241-242 and 250
RejectDelete(t) ==
    /\ pc[t] \in {"rej_del_stale", "rej_delete"}
    /\ requests' = requests \ {loc[t].req}
    /\ \E o \in deleteOutcomes(loc[t].req,
                   IF pc[t] = "rej_del_stale" THEN "NotPending" ELSE "ok") :
           Finish(t, o, loc[t].req, NoTeam)
    /\ UNCHANGED <<status, team, nextTeamId, nextReqId, profiles, uiVars, last, origin, calls>>

\* completeProject, lines 126-133
StartComplete(t, c, p) ==
    /\ CanStart(t)
    /\ calls' = calls + 1
    /\ LET o == completeProjectOutcome(c, p)
           l == [NoLocals EXCEPT !.op = "complete", !.caller = c, !.projectId = p]
       IN /\ pc' = [pc EXCEPT ![t] = IF o = "ok" THEN "cmp_save" ELSE "done"]
          /\ loc' = [loc EXCEPT ![t] = IF o = "ok" THEN l
                                       ELSE [NoLocals EXCEPT !.op = "complete", !.outcome = o]]
    /\ UNCHANGED <<storeVars, profiles, uiVars, last, origin>>

\* completeProject, lines 135-136
CompleteSave(t) ==
    /\ pc[t] = "cmp_save"
    /\ status' = [status EXCEPT ![loc[t].projectId] = "COMPLETED"]
    /\ Goto(t, "cmp_collect", loc[t])
    /\ UNCHANGED <<team, requests, nextTeamId, nextReqId, profiles, uiVars, last, origin, calls>>

\* createRatingRequestsForProject, lines 265-281, called with the project
\* completeProject has just saved
CompleteCollect(t) ==
    /\ pc[t] = "cmp_collect"
    /\ LET pairs == createRatingRequestsForProject(loc[t].projectId, "COMPLETED")
       IN IF pairs = <<>> THEN Finish(t, "ok", NoRequest, NoTeam)
          ELSE Goto(t, "cmp_rate", [loc[t] EXCEPT !.todo = pairs])
    /\ UNCHANGED <<storeVars, profiles, uiVars, last, origin, calls>>

\* createRatingRequestsForProject, lines 286-298: one save of the nested loop
CompleteSaveRating(t) ==
    /\ pc[t] = "cmp_rate"
    /\ nextReqId <= MaxReqId
    /\ requests' = requests \cup {ratingRequest(loc[t].projectId, loc[t].todo, 1, nextReqId)}
    /\ nextReqId' = nextReqId + 1
    /\ IF Len(loc[t].todo) = 1 THEN Finish(t, "ok", NoRequest, NoTeam)
       ELSE Goto(t, "cmp_rate", [loc[t] EXCEPT !.todo = Tail(loc[t].todo)])
    /\ UNCHANGED <<status, team, nextTeamId, profiles, uiVars, last, origin, calls>>

\* a repository write throws (store unavailable): the exception leaves the
\* service method, and what earlier repository calls committed stays
WritePoints == {"inv_save", "acc_save", "acc_delete", "acc_del_stale", "acc_del_dup",
                "rej_del_stale", "rej_delete", "cmp_save", "cmp_rate"}

StoreFailure(t) ==
    /\ pc[t] \in WritePoints
    /\ Finish(t, "StoreFailure", loc[t].req, NoTeam)
    /\ UNCHANGED <<storeVars, profiles, uiVars, last, origin, calls>>

ThreadStart(t) ==
    \/ \E c \in Emails, p \in ProjectIdInputs, target \in Emails : StartInvite(t, c, p, target)
    \/ \E c \in Emails, rid \in RequestIdInputs : StartAccept(t, c, rid)
    \/ \E c \in Emails, rid \in RequestIdInputs : StartReject(t, c, rid)
    \/ \E c \in Emails, p \in ProjectIdInputs : StartComplete(t, c, p)

ThreadStep(t) ==
    \/ InviteExists(t) \/ InviteFind(t) \/ InviteSave(t)
    \/ AcceptFind(t) \/ AcceptExists(t) \/ AcceptDeleteAndThrow(t)
    \/ AcceptSave(t) \/ AcceptDelete(t)
    \/ RejectFind(t) \/ RejectDelete(t)
    \/ CompleteSave(t) \/ CompleteCollect(t) \/ CompleteSaveRating(t)
    \/ StoreFailure(t)

ConcNext == \E t \in Threads : ThreadStart(t) \/ ThreadStep(t)

ConcSpec == Init /\ [][ConcNext]_vars

\* ------------------------------------------------------------------------
\* AuthSpec: the frontend AuthProvider
\* ------------------------------------------------------------------------
\* JWTs the login endpoint has handed to this browser
Tokens == {"jwtA", "jwtB"}

\* GET /api/profile: the backend identifies the user from the token sent
profileOf(t) == IF t = "jwtA" THEN "profileA" ELSE "profileB"

\* getMyProfile: authHeaders reads the token from localStorage when the call
\* is made; the call stays in flight until the server answers
getMyProfile(stored) == [id |-> fetchCount + 1, sent |-> stored]

\* the first render: token from localStorage, no profile, and the effect of
\* the mount has run fetchProfile
AuthInit ==
    /\ ServerInit /\ profiles = {"ann", "bob", "cat"}
    /\ PageUnmounted
    /\ storedToken \in Tokens \cup {NULL}
    /\ token = storedToken
    /\ profile = NULL
    /\ loading = (storedToken # NULL)
    /\ fetching = IF storedToken = NULL THEN {}
                  ELSE {[id |-> 1, sent |-> storedToken]}
    /\ fetchCount = IF storedToken = NULL THEN 0 ELSE 1

\* setAuth, then the effect on [token] when the token changed: fetchProfile
\* of the new render, whose token is set, calls getMyProfile
setAuth(t, p) ==
    /\ storedToken' = t
    /\ token' = t
    /\ profile' = IF p # NULL THEN p ELSE profile
    /\ IF t # token
       THEN /\ fetchCount < MaxFetches
            /\ fetching' = fetching \cup {getMyProfile(t)}
            /\ fetchCount' = fetchCount + 1
       ELSE UNCHANGED <<fetching, fetchCount>>
    /\ UNCHANGED <<loading, vars, pageVars>>

\* logout, then the effect on [token] when the token changed: fetchProfile
\* without a token only clears loading
logout ==
    /\ storedToken' = NULL
    /\ token' = NULL
    /\ profile' = NULL
    /\ loading' = IF token # NULL THEN FALSE ELSE loading
    /\ UNCHANGED <<fetching, fetchCount, vars, pageVars>>

\* refreshProfile: fetchProfile of the current render
refreshProfile ==
    /\ IF token = NULL
       THEN /\ loading' = FALSE
            /\ UNCHANGED <<fetching, fetchCount>>
       ELSE /\ fetchCount < MaxFetches
            /\ fetching' = fetching \cup {getMyProfile(storedToken)}
            /\ fetchCount' = fetchCount + 1
            /\ UNCHANGED loading
    /\ UNCHANGED <<token, storedToken, profile, vars, pageVars>>

\* fetchProfile after the await, try branch and finally: the server answered
\* with the profile of the token the call carried
fetchResolved(f) ==
    /\ f \in fetching
    /\ f.sent # NULL
    /\ profile' = profileOf(f.sent)
    /\ loading' = FALSE
    /\ fetching' = fetching \ {f}
    /\ UNCHANGED <<token, storedToken, fetchCount, vars, pageVars>>

\* fetchProfile after the await, catch branch and finally: the call failed
\* (expired token, server error, network); the effect on [token] then runs
\* fetchProfile without a token
fetchFailed(f) ==
    /\ f \in fetching
    /\ storedToken' = NULL
    /\ token' = NULL
    /\ profile' = NULL
    /\ loading' = FALSE
    /\ fetching' = fetching \ {f}
    /\ UNCHANGED <<fetchCount, vars, pageVars>>

Login == \E t \in Tokens : \E p \in {NULL, profileOf(t)} : setAuth(t, p)
FetchResolved == \E f \in fetching : fetchResolved(f)
FetchFailed == \E f \in fetching : fetchFailed(f)

AuthNext == Login \/ logout \/ refreshProfile \/ FetchResolved \/ FetchFailed

AuthSpec == AuthInit /\ [][AuthNext]_authVars

\* ------------------------------------------------------------------------
\* PageSpec: the frontend NotificationsPage
\* ------------------------------------------------------------------------
\* request ids getIncomingRequests returned when the page was mounted
ShownIds == 1..MaxShown

\* the page after its list has loaded
PageInit ==
    /\ ServerInit /\ profiles = {"ann", "bob", "cat"}
    /\ AuthUnmounted
    /\ pageRequests = [i \in ShownIds |-> i]
    /\ processing = <<>>
    /\ handling = {}
    /\ settled = NoneSettled

\* the card of request id is rendered
shown(id) == \E i \in 1..Len(pageRequests) : pageRequests[i] = id

\* disabled={processing[r.requestId]}: a key never set is undefined, falsy
isProcessing(id) == id \in DOMAIN processing /\ processing[id]

\* setProcessing(p => ({ ...p, [id]: v }))
setProcessing(p, id, v) ==
    [k \in DOMAIN p \cup {id} |-> IF k = id THEN v ELSE p[k]]

\* prev.filter(x => x.requestId !== id)
filter(prev, id) == SelectSeq(prev, LAMBDA x : x # id)

\* handle, lines 54-57: a click on an enabled Accept or Reject button of a
\* rendered card, up to the await of the server call
handle(r, accept) ==
    /\ shown(r)
    /\ ~isProcessing(r)
    /\ processing' = setProcessing(processing, r, TRUE)
    /\ handling' = handling \cup {[requestId |-> r, accept |-> accept]}
    /\ UNCHANGED <<pageRequests, settled, vars, authVars>>

\* handle, lines 58-69 and finally: acceptRequest or rejectRequest resolved
handleSucceeded(h) ==
    /\ h \in handling
    /\ pageRequests' = filter(pageRequests, h.requestId)
    /\ processing' = setProcessing(processing, h.requestId, FALSE)
    /\ handling' = handling \ {h}
    /\ settled' = [requestId |-> h.requestId, ok |-> TRUE]
    /\ UNCHANGED <<vars, authVars>>

\* a handle that leaves the processing flag set when the server call fails
handleFailed_NoFinally(h) ==
    /\ h \in handling
    /\ handling' = handling \ {h}
    /\ settled' = [requestId |-> h.requestId, ok |-> FALSE]
    /\ UNCHANGED <<pageRequests, processing, vars, authVars>>

\* handle, catch and finally: acceptRequest or rejectRequest threw
handleFailed(h) ==
    /\ h \in handling
    /\ processing' = setProcessing(processing, h.requestId, FALSE)
    /\ handling' = handling \ {h}
    /\ settled' = [requestId |-> h.requestId, ok |-> FALSE]
    /\ UNCHANGED <<pageRequests, vars, authVars>>

Click == \E r \in ShownIds, accept \in BOOLEAN : handle(r, accept)
Succeeded == \E h \in handling : handleSucceeded(h)
Failed == \E h \in handling : handleFailed(h)

\* the server call made for request id settles
settles(id) ==
    \E h \in handling : h.requestId = id /\ (handleSucceeded(h) \/ handleFailed(h))

PageNext == Click \/ Succeeded \/ Failed

\* every fetch promise settles: the browser resolves it with the response or
\* rejects it when the connection ends
PageSpec ==
    PageInit /\ [][PageNext]_pageVars /\ \A id \in ShownIds : WF_pageVars(settles(id))

\* ========================================================================
\* Properties
\* ========================================================================
\* the project_team rows for (p, e)
membershipsOf(p, e) == {m \in team : m.projectId = p /\ m.memberEmail = e}

\* the PENDING JOIN_REQUEST rows for (p, e)
pendingJoinRequests(p, e) ==
    {r \in requests : /\ r.projectId = p /\ r.targetEmail = e
                      /\ r.status = "PENDING" /\ r.type = "JOIN_REQUEST"}

\* thread t has finished a call of op that no injected store failure cut short
finished(t, op) ==
    pc[t] = "done" /\ loc[t].op = op /\ loc[t].outcome # "StoreFailure"

\* C1: whenever two threads have both finished an accept of the same request
\* id, each acting as the request's target, there is exactly one membership
\* row for the request's (project, target), the request row is gone, exactly
\* one of the two calls succeeded and the other observed NotFound or
\* InvalidState.
C1_ConcurrentAcceptOnce ==
    \A t1, t2 \in Threads :
        ( /\ t1 # t2
          /\ finished(t1, "accept") /\ finished(t2, "accept")
          /\ loc[t1].requestId = loc[t2].requestId
          /\ loc[t1].req # NoRequest
          /\ loc[t1].outcome # "NotTarget" /\ loc[t2].outcome # "NotTarget" )
        => LET r == loc[t1].req
           IN /\ Cardinality(membershipsOf(r.projectId, r.targetEmail)) = 1
              /\ r \notin requests
              /\ \/ loc[t1].outcome = "ok"
                    /\ ErrorKind(loc[t2].outcome) \in {"NotFound", "InvalidState"}
                 \/ loc[t2].outcome = "ok"
                    /\ ErrorKind(loc[t1].outcome) \in {"NotFound", "InvalidState"}

\* C2: accept is atomic.  In every state in which no accept of request r is
\* still between its two writes, the membership written by accepting r does
\* not coexist with the row of r in the request store; and an accept of r
\* that returned has left its membership in the team store.
C2_AcceptAtomic ==
    /\ \A o \in origin :
          (~\E t \in Threads : pc[t] = "acc_delete" /\ loc[t].req = o.req)
          => o.req \notin requests
    /\ \A t \in Threads :
          (finished(t, "accept") /\ loc[t].outcome = "ok") => loc[t].ret \in team

\* C3: with calls that do not overlap, the request store holds at most one
\* PENDING JOIN_REQUEST row for each (project, target email) pair.
C3_AtMostOnePendingJoin ==
    \A p \in Projects, e \in Emails : Cardinality(pendingJoinRequests(p, e)) <= 1

\* C3 witness: an invite was repeated while the first request was pending.
C3_Witness ==
    /\ last = Returned("invite", "existing")
    /\ \E p \in Projects, e \in Emails : Cardinality(pendingJoinRequests(p, e)) = 1

\* C4: whenever two threads have both finished an issue-invite that returned
\* a request for the same (project, target email), the store holds at most
\* one PENDING JOIN_REQUEST row for that pair.
C4_ConcurrentInviteOnce ==
    \A t1, t2 \in Threads :
        ( /\ t1 # t2
          /\ finished(t1, "invite") /\ finished(t2, "invite")
          /\ loc[t1].req # NoRequest /\ loc[t2].req # NoRequest
          /\ loc[t1].req.projectId = loc[t2].req.projectId
          /\ loc[t1].req.targetEmail = loc[t2].req.targetEmail )
        => Cardinality(pendingJoinRequests(loc[t1].req.projectId,
                                           loc[t1].req.targetEmail)) <= 1

\* C5: with calls that do not overlap, no two project_team rows have the same
\* (project, member email) pair.
C5_MembershipUnique ==
    \A m1, m2 \in team :
        (m1.projectId = m2.projectId /\ m1.memberEmail = m2.memberEmail) => m1 = m2

\* C5 witness: an accept for a pair that already has its membership row was
\* refused.
C5_Witness ==
    /\ last = Returned("accept", "AlreadyTeammate")
    /\ team # {}

\* C6: every project_team row (P, m) was written by the accept of a
\* JOIN_REQUEST for (P, m) that P's owner issued; no row was written by the
\* accept of a RATING_REQUEST.
C6_MembershipFromJoinRequest ==
    \A m \in team :
        \E o \in origin :
            /\ o.teamId = m.id
            /\ o.req.type = "JOIN_REQUEST"
            /\ o.req.requesterEmail = ownerEmail(m.projectId)
            /\ o.req.projectId = m.projectId
            /\ o.req.targetEmail = m.memberEmail

\* C7: no project_team row has the owner of its project as member email.
C7_OwnerNeverMember ==
    \A m \in team : m.memberEmail # ownerEmail(m.projectId)

\* C8: when the owner invites a target that has a profile, is not the owner
\* (compared as the self-invite check compares, ignoring case) and is not a
\* member, then the same invite issued again right after returns the same
\* request id, and the store holds exactly one request row for the pair.
C8_InviteIdempotent ==
    [][last'.op = "invite" =>
       \A c \in Emails, p \in Projects, t \in Emails :
          ( /\ c = ownerEmail(p)
            /\ hasProfile(t)
            /\ ~equalsIgnoreCase(c, t)
            /\ ~existsByProjectIdAndMemberEmail(p, t)
            /\ createTeammateRequest(c, p, t) )
          => /\ createTeammateRequestResult(c, p, t) # NoRequest
             /\ createTeammateRequestResult(c, p, t)'.id =
                    createTeammateRequestResult(c, p, t).id
             /\ createTeammateRequestOutcome(c, p, t)' = "existing"
             /\ Cardinality({r \in requests' : r.projectId = p /\ r.targetEmail = t}) = 1
      ]_vars

\* C8 witness: the second of two invites in a row returned the existing row.
C8_Witness ==
    /\ last = Returned("invite", "existing")
    /\ \E r \in requests : r.type = "JOIN_REQUEST" /\ r.requesterEmail = ownerEmail(r.projectId)

\* C9: a successful accept of pending request r by its target leaves exactly
\* one project_team row for (r.project, r.target) and no request row with r's
\* id.
C9_AcceptEffect ==
    [][last' = Returned("accept", "ok") =>
       \A c \in Emails, rid \in RequestIdInputs :
          LET r == findRequest(rid)
          IN ( /\ r # NoRequest
               /\ r.status = "PENDING"
               /\ equalsIgnoreCase(c, r.targetEmail)
               /\ acceptTeammateRequest(c, rid) )
             => /\ Cardinality({m \in team' : /\ m.projectId = r.projectId
                                              /\ m.memberEmail = r.targetEmail}) = 1
                /\ {x \in requests' : x.id = rid} = {}
      ]_vars

\* C9 witness: an accept has succeeded.
C9_Witness ==
    /\ last = Returned("accept", "ok")
    /\ team # {}

\* C10: a successful reject of pending request r by its target leaves the
\* project_team store as it was and no request row with r's id.
C10_RejectEffect ==
    [][last' = Returned("reject", "ok") =>
       \A c \in Emails, rid \in RequestIdInputs :
          LET r == findRequest(rid)
          IN ( /\ r # NoRequest
               /\ r.status = "PENDING"
               /\ equalsIgnoreCase(c, r.targetEmail)
               /\ rejectTeammateRequest(c, rid) )
             => /\ team' = team
                /\ {x \in requests' : x.id = rid} = {}
      ]_vars

\* C10 witness: a reject has succeeded.
C10_Witness ==
    /\ last = Returned("reject", "ok")
    /\ nextReqId > 1

\* the distinct emails among the owner and the members of p that have a
\* profile
ratingParticipants(p) ==
    {e \in {ownerEmail(p)} \cup {m.memberEmail : m \in {t \in team : t.projectId = p}} :
        hasProfile(e)}

\* the RATING_REQUEST rows of S that ask rater to rate ratee for project p
ratingRows(S, p, rater, ratee) ==
    {r \in S : /\ r.type = "RATING_REQUEST" /\ r.projectId = p
               /\ r.targetEmail = rater /\ r.rateeEmail = ratee}

\* C11: a completion of project p by its owner adds exactly |M|*(|M|-1)
\* request rows, M being the distinct profiled emails among owner and
\* members: exactly one RATING_REQUEST row for every ordered pair of distinct
\* elements of M, and none whose ratee is its own target.
C11_FanOutOncePerPair ==
    [][last' = Returned("complete", "ok") =>
       \A p \in Projects :
          completeProjectUpTo(MaxFanReqId, ownerEmail(p), p)
          => LET M == ratingParticipants(p)
                 new == requests' \ requests
             IN /\ Cardinality(new) = Cardinality(M) * (Cardinality(M) - 1)
                /\ \A a, b \in M :
                      a # b => Cardinality(ratingRows(new, p, a, b)) = 1
                /\ \A r \in new : r.rateeEmail # r.targetEmail
      ]_vars

\* how many rows a fan-out that computed pairs saves for (rater, ratee)
pairCount(pairs, rater, ratee) ==
    Cardinality({k \in 1..Len(pairs) : pairs[k] = <<rater, ratee>>})

\* C12: the fan-out is not idempotent.  Right after a successful completion
\* of p, a further completion has, for every ordered pair (rater, ratee) of
\* distinct participants, at least one row to save, as many as the store
\* already holds from the first; and when that further completion is the
\* next call, it adds that many rows for the pair, so that at least two rows
\* for the pair are in the store afterwards.
C12_FanOutNotIdempotent ==
    /\ [](last = Returned("complete", "ok") =>
            \A p \in Projects :
               status[p] = "COMPLETED" =>
                  LET again == createRatingRequestsForProject(p, status[p])
                  IN \A a, b \in ratingParticipants(p) :
                        a # b =>
                           /\ pairCount(again, a, b) >= 1
                           /\ Cardinality(ratingRows(requests, p, a, b)) >=
                                 pairCount(again, a, b))
    /\ [][(last = Returned("complete", "ok") /\ last' = Returned("complete", "ok")) =>
          \A p \in Projects :
             (status[p] = "COMPLETED" /\ completeProjectUpTo(MaxFanReqId, ownerEmail(p), p))
             => LET first == createRatingRequestsForProject(p, status[p])
                IN \A a, b \in ratingParticipants(p) :
                      a # b =>
                         /\ Cardinality(ratingRows(requests', p, a, b)) =
                               Cardinality(ratingRows(requests, p, a, b)) +
                               pairCount(first, a, b)
                         /\ Cardinality(ratingRows(requests', p, a, b)) >= 2
         ]_vars

\* C12 witness: the project was completed twice and both copies of the rows
\* of a two-participant fan-out are in the store.
C12_Witness ==
    /\ last = Returned("complete", "ok")
    /\ \E p \in Projects :
          /\ Cardinality(ratingParticipants(p)) = 2
          /\ \A a, b \in ratingParticipants(p) :
                a # b => Cardinality(ratingRows(requests, p, a, b)) = 2

\* C13: an invite by the owner whose target is the owner's own email, in any
\* letter case, fails with InvalidArgument and leaves the request store as it
\* was.
C13_SelfInviteRejected ==
    [][last'.op = "invite" =>
       \A c \in Emails, p \in Projects, t \in Emails :
          ( /\ c = ownerEmail(p)
            /\ Lower(c) = Lower(t)
            /\ createTeammateRequest(c, p, t) )
          => /\ ErrorKind(last'.outcome) = "InvalidArgument"
             /\ requests' = requests
             /\ nextReqId' = nextReqId
      ]_vars

\* C13 witness: the owner invited their own email and was refused.
C13_Witness ==
    /\ last = Returned("invite", "Self")
    /\ ErrorKind(last.outcome) = "InvalidArgument"

\* C14: an invite fails with Forbidden when the caller is not the owner of
\* the existing project, with NotFound when the project does not exist or
\* the owner's target (not the owner) has no profile, with Conflict when the
\* owner's profiled target is already a member; and every invite that fails
\* leaves the request store and the membership store as they were.
C14_FailedInviteChangesNothing ==
    [][last'.op = "invite" =>
       \A c \in Emails, p \in ProjectIdInputs, t \in Emails :
          createTeammateRequest(c, p, t)
          => LET kind == ErrorKind(last'.outcome)
                 byOwner == p \in Projects /\ c = ownerEmail(p) /\ Lower(c) # Lower(t)
             IN /\ p \notin Projects => kind = "NotFound"
                /\ (p \in Projects /\ c # ownerEmail(p)) => kind = "Forbidden"
                /\ (byOwner /\ t \notin profiles) => kind = "NotFound"
                /\ (byOwner /\ t \in profiles /\ membershipsOf(p, t) # {})
                      => kind = "Conflict"
                /\ kind # "Success"
                      => /\ requests' = requests /\ nextReqId' = nextReqId
                         /\ team' = team /\ nextTeamId' = nextTeamId
      ]_vars

\* C14 witness: an invite of a target that is already a member was refused.
C14_Witness ==
    /\ last = Returned("invite", "AlreadyTeammate")
    /\ \E m \in team : m.memberEmail # ownerEmail(m.projectId)

\* C15: an accept or reject of a stored request by a caller whose email
\* differs from the request's target email in more than letter case fails
\* with Forbidden and leaves the request store and the membership store as
\* they were; and every step that removes a row from the request store is an
\* accept or reject of that row by a caller whose email equals the row's
\* target email up to letter case.
C15_OnlyTargetAnswers ==
    [][ /\ last'.op \in {"accept", "reject"} =>
           \A c \in Emails, rid \in RequestIdInputs :
              LET r == findRequest(rid)
              IN ( /\ r # NoRequest
                   /\ Lower(c) # Lower(r.targetEmail)
                   /\ \/ acceptTeammateRequest(c, rid)
                      \/ rejectTeammateRequest(c, rid) )
                 => /\ ErrorKind(last'.outcome) = "Forbidden"
                    /\ requests' = requests
                    /\ team' = team
        /\ \A r \in requests \ requests' :
              /\ last'.op \in {"accept", "reject"}
              /\ \E c \in Emails :
                    /\ Lower(c) = Lower(r.targetEmail)
                    /\ \/ acceptTeammateRequest(c, r.id)
                       \/ rejectTeammateRequest(c, r.id)
      ]_vars

\* C15 witness: a reject by someone other than the target was refused and the
\* request is still in the store.
C15_Witness ==
    /\ last = Returned("reject", "NotTarget")
    /\ requests # {}

\* C16: a request id is consumed at most once.  An accept or reject of a
\* stored request that succeeds, and an accept that fails with Conflict,
\* leave no row with that id; an id that was handed out and has no row never
\* gets a row again; and an accept or reject of an id that has no row fails
\* with NotFound and leaves both stores as they were.
C16_RequestIdConsumedOnce ==
    [][ /\ last'.op = "accept" =>
           \A c \in Emails, rid \in RequestIdInputs :
              ( /\ acceptTeammateRequestOutcome(c, rid) = last'.outcome
                /\ acceptTeammateRequest(c, rid) )
              => /\ ( /\ findById(rid) # {}
                      /\ \/ last'.outcome = "ok"
                         \/ ErrorKind(last'.outcome) = "Conflict" )
                    => {x \in requests' : x.id = rid} = {}
                 /\ findById(rid) = {}
                    => /\ ErrorKind(last'.outcome) = "NotFound"
                       /\ team' = team
                       /\ requests' = requests
        /\ last'.op = "reject" =>
           \A c \in Emails, rid \in RequestIdInputs :
              ( /\ rejectTeammateRequestOutcome(c, rid) = last'.outcome
                /\ rejectTeammateRequest(c, rid) )
              => /\ (findById(rid) # {} /\ last'.outcome = "ok")
                    => {x \in requests' : x.id = rid} = {}
                 /\ findById(rid) = {}
                    => /\ ErrorKind(last'.outcome) = "NotFound"
                       /\ team' = team
                       /\ requests' = requests
        /\ \A rid \in 1..(nextReqId - 1) :
              findById(rid) = {} => {x \in requests' : x.id = rid} = {}
      ]_vars

\* C16 witness: an accept of an id with no row was refused while an id that
\* was handed out has been consumed by an accept that wrote a membership.
C16_Witness ==
    /\ last = Returned("accept", "RequestNotFound")
    /\ team # {}
    /\ \E rid \in 1..(nextReqId - 1) : findById(rid) = {}

\* C17: every row of the request store has status PENDING, and no accept or
\* reject has ended on the not-pending branch.
C17_AllRequestsPending ==
    /\ \A r \in requests : r.status = "PENDING"
    /\ last.outcome # "NotPending"
    /\ ErrorKind(last.outcome) # "InvalidState"

\* C17 witness: a reject has succeeded while other requests are still stored.
C17_Witness ==
    /\ last = Returned("reject", "ok")
    /\ requests # {}
    /\ \A r \in requests : r.status = "PENDING"

\* C18: a project that is COMPLETED stays COMPLETED in every step, and a step
\* that changes a project's status is a complete call that moves it from
\* ACTIVE to COMPLETED.
C18_StatusOneWay ==
    [][\A p \in Projects :
          /\ status[p] = "COMPLETED" => status'[p] = "COMPLETED"
          /\ status'[p] # status[p]
                => /\ last' = Returned("complete", "ok")
                   /\ status[p] = "ACTIVE"
                   /\ status'[p] = "COMPLETED"
      ]_vars

\* C18 witness: a request was accepted after the project was completed, and
\* the project is still COMPLETED.
C18_Witness ==
    /\ last = Returned("accept", "ok")
    /\ \E p \in Projects :
          /\ status[p] = "COMPLETED"
          /\ \E r \in requests : r.type = "RATING_REQUEST" /\ r.projectId = p

\* C19: a complete of project p by a caller other than p's owner fails and
\* leaves every project's status and the request store as they were.
C19_CompleteByNonOwner ==
    [][last'.op = "complete" =>
       \A c \in Emails, p \in Projects :
          (c # ownerEmail(p) /\ completeProject(c, p))
          => /\ ErrorKind(last'.outcome) # "Success"
             /\ status' = status
             /\ requests' = requests
             /\ nextReqId' = nextReqId
      ]_vars

\* C19 witness: a complete by a non-owner was refused while the project, which
\* has a member, is still ACTIVE.
C19_Witness ==
    /\ last = Returned("complete", "NotOwner")
    /\ \E p \in Projects : status[p] = "ACTIVE" /\ membershipsOf(p, "bob") # {}

\* C20: an invite that fails because the project does not exist or because
\* the target has no profile is answered with HTTP status 404.
C20_MissingTargetIs404 ==
    [][last'.op = "invite" =>
       \A c \in Emails, p \in ProjectIdInputs, t \in Emails :
          ( /\ createTeammateRequestOutcome(c, p, t) \in {"ProjectNotFound", "NoProfile"}
            /\ createTeammateRequest(c, p, t) )
          => createTeammateRequestHttpStatus(last'.outcome, t) = 404
      ]_vars

\* C21: an accept or reject refused because the caller is not the request's
\* target, and a complete refused because the caller is not the project's
\* owner, are answered with HTTP status 403.
C21_ForbiddenIs403 ==
    ( /\ last.op \in {"accept", "reject", "complete"}
      /\ ErrorKind(last.outcome) = "Forbidden" )
    => controllerHttpStatus(last.outcome) = 403

\* C22: list-incoming for email e returns exactly the stored request rows
\* whose target email is e, whatever their type and status; the call leaves
\* every store as it was; and a request that was accepted or rejected is
\* returned to nobody afterwards.
C22_ListIncoming ==
    /\ [](\A e \in Emails :
             /\ \A r \in requests : r \in findAllByTargetEmail(e) <=> r.targetEmail = e
             /\ findAllByTargetEmail(e) \subseteq requests)
    /\ [][ /\ last'.op = "list" => UNCHANGED storeVars
           /\ last' \in {Returned("accept", "ok"), Returned("reject", "ok")} =>
                 \A r \in requests \ requests', e \in Emails :
                    /\ r \in findAllByTargetEmail(r.targetEmail)
                    /\ \A x \in findAllByTargetEmail(e)' : x.id # r.id
         ]_vars

\* C22 witness: a list call returned while the store holds a RATING_REQUEST
\* and a JOIN_REQUEST for different targets and one request has been answered.
C22_Witness ==
    /\ last = Returned("list", "ok")
    /\ \E e \in Emails : \E r \in findAllByTargetEmail(e) : r.type = "RATING_REQUEST"
    /\ \E e \in Emails : \E r \in findAllByTargetEmail(e) : r.type = "JOIN_REQUEST"
    /\ nextReqId - 1 > Cardinality(requests)

\* the distinct emails among the owner and the members of p
allMembers(p) ==
    {ownerEmail(p)} \cup {m.memberEmail : m \in {t \in team : t.projectId = p}}

\* C23: a completion of p by its owner succeeds whether or not every member
\* has a profile; the rows it adds neither target nor name an owner or member
\* email that has no profile; and it adds a row for every ordered pair of
\* distinct members that do have one.
C23_UnresolvedProfileSkipped ==
    [][last'.op = "complete" =>
       \A p \in Projects :
          completeProjectUpTo(MaxFanReqId, ownerEmail(p), p)
          => LET new == requests' \ requests
             IN /\ last'.outcome = "ok"
                /\ status'[p] = "COMPLETED"
                /\ \A e \in allMembers(p) :
                      e \notin profiles =>
                         \A r \in new : r.targetEmail # e /\ r.rateeEmail # e
                /\ \A a, b \in allMembers(p) :
                      (a # b /\ a \in profiles /\ b \in profiles)
                      => ratingRows(new, p, a, b) # {}
      ]_vars

\* C23 witness: the owner has no profile, two members have one, and the
\* completion left rating requests between the two members only.
C23_Witness ==
    /\ last = Returned("complete", "ok")
    /\ \E p \in Projects :
          /\ ownerEmail(p) \notin profiles
          /\ ratingRows(requests, p, "bob", "cat") # {}
          /\ ratingRows(requests, p, "cat", "bob") # {}
          /\ \A r \in requests : r.targetEmail # ownerEmail(p) /\ r.rateeEmail # ownerEmail(p)

C25_RatingOnlyWhenCompleted ==
    /\ \A r \in requests :
          r.type = "RATING_REQUEST" => (r.projectId \in Projects /\ status[r.projectId] = "COMPLETED")
    /\ \A p \in Projects :
          status[p] # "COMPLETED" => createRatingRequestsForProject(p, status[p]) = <<>>

\* C25 witness: a completion has left RATING_REQUEST rows for its project.
C25_Witness ==
    /\ last = Returned("complete", "ok")
    /\ \E r \in requests : r.type = "RATING_REQUEST" /\ status[r.projectId] = "COMPLETED"

\* C26: once a project is COMPLETED no step adds a JOIN_REQUEST row or a
\* project_team row for it.
C26_TeamFrozenAfterCompletion ==
    [][\A p \in Projects :
          status[p] = "COMPLETED"
          => /\ \A r \in requests' \ requests :
                   ~(r.projectId = p /\ r.type = "JOIN_REQUEST")
             /\ \A m \in team' \ team : m.projectId # p
      ]_vars

\* C27: whenever one thread has finished an accept and another a reject of
\* the same stored request, each acting as its target, not both calls
\* succeeded, and if the reject succeeded no project_team row was written by
\* accepting that request.
C27_AcceptRejectExclusive ==
    \A t1, t2 \in Threads :
        ( /\ t1 # t2
          /\ finished(t1, "accept") /\ finished(t2, "reject")
          /\ loc[t1].requestId = loc[t2].requestId
          /\ loc[t2].req # NoRequest )
        => /\ ~(loc[t1].outcome = "ok" /\ loc[t2].outcome = "ok")
           /\ loc[t2].outcome = "ok" => ~\E o \in origin : o.req = loc[t2].req

\* C28: completion is all-or-nothing.  Whenever a complete call has ended in
\* a failed repository write and no other completion is under way, a project
\* that is COMPLETED has a RATING_REQUEST row for every ordered pair of its
\* distinct profiled participants.
C28_CompletionAllOrNothing ==
    \A t \in Threads :
        ( /\ pc[t] = "done" /\ loc[t].op = "complete"
          /\ loc[t].outcome = "StoreFailure"
          /\ \A u \in Threads : pc[u] \notin {"cmp_save", "cmp_collect", "cmp_rate"} )
        => \A p \in Projects :
              status[p] = "COMPLETED"
              => \A a, b \in ratingParticipants(p) :
                    a # b => ratingRows(requests, p, a, b) # {}

\* C29: a logged-out AuthProvider has no profile, the token in React state
\* equals the token in localStorage, and a profile fetch that settles after
\* localStorage has moved on from the token it carried changes neither the
\* stored token nor the token in React state.
C29_LateFetchHarmless ==
    /\ [](token = NULL => profile = NULL)
    /\ [](token = storedToken)
    /\ [][\A f \in fetching \ fetching' :
             f.sent # storedToken
             => /\ storedToken' = storedToken
                /\ token' = token
         ]_authVars

====
